---- MODULE Spec2Model ----
(***************************************************************************)
(* Model of the statement extraction core of pdf_to_csv_parser.py:         *)
(* the two line parsers (parse_axis, parse_hdfc), the category classifier  *)
(* (extract_hdfc_category, categorize_transaction), the bank/card          *)
(* identifier (detect_bank, detect_card), the orchestrator                 *)
(* (parse_statement) and the batch combiner (parse_multiple_statements).   *)
(*                                                                         *)
(* Text is a sequence of characters; a character is a one-character        *)
(* string.  The four non-ASCII characters that occur are written by code   *)
(* point: "U+20B9" is the rupee sign, and "U+00E2","U+201A","U+00B9" are   *)
(* the three characters that stand where the rupee sign was in the         *)
(* pattern of parse_axis (src/pdf_to_csv_parser.py:37).                    *)
(***************************************************************************)
EXTENDS Integers, Sequences, FiniteSets, TLC

VARIABLES pdf_files, idx, all_transactions, warnings, combined_df, pc,
          text, df, merchant, existing_category, category

vars == <<pdf_files, idx, all_transactions, warnings, combined_df, pc,
          text, df, merchant, existing_category, category>>

(***************************************************************************)
(* Characters and the str methods the code uses                            *)
(***************************************************************************)

\* Python's None, for the fields and results that hold a label or a table.
None == "<None>"

\* The float NaN / missing value that pd.isna recognises, as a text value.
NaN == <<"<NaN>">>

\* What indexing past the end of a text reads: no character.
EOF == ""

UpperChars == <<"A","B","C","D","E","F","G","H","I","J","K","L","M",
                "N","O","P","Q","R","S","T","U","V","W","X","Y","Z">>

LowerChars == <<"a","b","c","d","e","f","g","h","i","j","k","l","m",
                "n","o","p","q","r","s","t","u","v","w","x","y","z">>

DigitChars == <<"0","1","2","3","4","5","6","7","8","9">>

At(s, i) == IF i \in 1..Len(s) THEN s[i] ELSE EOF

IsDigit(c) == \E i \in 1..10 : DigitChars[i] = c

DigitVal(c) == (CHOOSE i \in 1..10 : DigitChars[i] = c) - 1

IsSpace(c) == c \in {" ", "\t", "\n", "\r"}

IsUpper(c) == \E i \in 1..26 : UpperChars[i] = c

IsLower(c) == \E i \in 1..26 : LowerChars[i] = c

\* \w of the re module: letters, digits, underscore (U+00E2 is a letter,
\* U+00B9 a numeric character).
IsWord(c) == IsUpper(c) \/ IsLower(c) \/ IsDigit(c) \/ c \in {"_", "U+00E2", "U+00B9"}

IsDigitOrComma(c) == IsDigit(c) \/ c = ","

lower_char(c) == IF IsUpper(c) THEN LowerChars[CHOOSE i \in 1..26 : UpperChars[i] = c] ELSE c

upper_char(c) == IF IsLower(c) THEN UpperChars[CHOOSE i \in 1..26 : LowerChars[i] = c]
                 ELSE IF c = "U+00E2" THEN "U+00C2" ELSE c

lower(s) == [i \in 1..Len(s) |-> lower_char(s[i])]

upper(s) == [i \in 1..Len(s) |-> upper_char(s[i])]

\* w occurs in s at position i.
LitAt(s, i, w) == /\ i >= 1
                  /\ i + Len(w) - 1 <= Len(s)
                  /\ \A k \in 1..Len(w) : s[i + k - 1] = w[k]

\* Python's `w in s`.
Contains(s, w) == \E i \in 1..(Len(s) - Len(w) + 1) : LitAt(s, i, w)

\* Position after the longest run of whitespace that starts at i: where a
\* greedy \s* or \s+ stops.
SkipSpace(s, i) == CHOOSE j \in i..(Len(s) + 1) :
                      /\ \A k \in i..(j - 1) : IsSpace(s[k])
                      /\ ~IsSpace(At(s, j))

\* The same for a greedy \d* or \d+.
SkipDigits(s, i) == CHOOSE j \in i..(Len(s) + 1) :
                       /\ \A k \in i..(j - 1) : IsDigit(s[k])
                       /\ ~IsDigit(At(s, j))

\* The same for a greedy [\d,]+.
SkipDigitsCommas(s, i) == CHOOSE j \in i..(Len(s) + 1) :
                             /\ \A k \in i..(j - 1) : IsDigitOrComma(s[k])
                             /\ ~IsDigitOrComma(At(s, j))

\* str.strip(): drop leading and trailing whitespace.
strip(s) == LET nonsp == {i \in 1..Len(s) : ~IsSpace(s[i])}
            IN IF nonsp = {} THEN <<>>
               ELSE SubSeq(s, CHOOSE i \in nonsp : \A j \in nonsp : i <= j,
                              CHOOSE i \in nonsp : \A j \in nonsp : i >= j)

\* str.replace(',', '').
RECURSIVE remove_commas(_)
remove_commas(s) == IF s = <<>> THEN <<>>
                    ELSE IF Head(s) = "," THEN remove_commas(Tail(s))
                    ELSE <<Head(s)>> \o remove_commas(Tail(s))

\* str.split('\n'): the pieces between line feeds (always at least one piece).
RECURSIVE split_lines(_)
split_lines(s) == LET nls == {i \in 1..Len(s) : s[i] = "\n"}
                  IN IF nls = {} THEN <<s>>
                     ELSE LET n == CHOOSE i \in nls : \A j \in nls : i <= j
                          IN <<SubSeq(s, 1, n - 1)>> \o split_lines(SubSeq(s, n + 1, Len(s)))

\* Value of a run of decimal digits.
RECURSIVE DigitsVal(_)
DigitsVal(s) == IF s = <<>> THEN 0
                ELSE 10 * DigitsVal(SubSeq(s, 1, Len(s) - 1)) + DigitVal(s[Len(s)])

RECURSIVE Pow10(_)
Pow10(n) == IF n = 0 THEN 1 ELSE 10 * Pow10(n - 1)

(***************************************************************************)
(* float() and datetime.strptime                                           *)
(***************************************************************************)

ValueError == "ValueError"

\* A decimal number m / 10^e, kept with no trailing zero in the fraction, so
\* that equal numbers are equal values (534.00 = 534 = <<534, 0>>).
RECURSIVE Decimal(_, _)
Decimal(m, e) == IF e > 0 /\ m % 10 = 0 THEN Decimal(m \div 10, e - 1) ELSE <<m, e>>

\* float(s) for s made of digits and at most one point: it raises ValueError
\* when s has no digit at all ('' or '.'), else it returns the number the
\* numeral denotes.  [exc |-> None, val |-> v] is a return of v.
float(s) == LET dots == {i \in 1..Len(s) : s[i] = "."}
                p    == IF dots = {} THEN Len(s) + 1 ELSE CHOOSE i \in dots : TRUE
                ip   == SubSeq(s, 1, p - 1)
                fp   == SubSeq(s, p + 1, Len(s))
            IN IF Len(ip) + Len(fp) = 0 \/ Cardinality(dots) > 1
                  \/ \E i \in 1..Len(s) : ~(IsDigit(s[i]) \/ s[i] = ".")
               THEN [exc |-> ValueError, val |-> <<0, 0>>]
               ELSE [exc |-> None,
                     val |-> Decimal(DigitsVal(ip) * Pow10(Len(fp)) + DigitsVal(fp), Len(fp))]

\* A datetime at midnight, as the number yyyymmdd: the order of the numbers is
\* the order of the dates.
datetime(y, m, d) == y * 10000 + m * 100 + d

MonthAbbr == << <<"j","a","n">>, <<"f","e","b">>, <<"m","a","r">>, <<"a","p","r">>,
                <<"m","a","y">>, <<"j","u","n">>, <<"j","u","l">>, <<"a","u","g">>,
                <<"s","e","p">>, <<"o","c","t">>, <<"n","o","v">>, <<"d","e","c">> >>

IsLeap(y) == (y % 4 = 0 /\ y % 100 # 0) \/ y % 400 = 0

DaysInMonth(y, m) == IF m = 2 THEN (IF IsLeap(y) THEN 29 ELSE 28)
                     ELSE IF m \in {4, 6, 9, 11} THEN 30 ELSE 31

\* The date of (y, m, d); ValueError is raised when there is no such calendar day.
MakeDate(y, m, d) == IF y >= 1 /\ m \in 1..12 /\ d >= 1 /\ d <= DaysInMonth(y, m)
                     THEN [exc |-> None, val |-> datetime(y, m, d)]
                     ELSE [exc |-> ValueError, val |-> 0]

\* datetime.strptime(s, "%d %b '%y") for s of the shape the pattern of
\* parse_axis captures: 1-2 digits, spaces, 3 word characters, spaces, an
\* apostrophe, 2 digits.  %b matches the month abbreviations in any letter
\* case; %y maps 00-68 to 2000-2068 and 69-99 to 1969-1999.
strptime_axis(s) ==
    LET a   == SkipDigits(s, 1)
        b   == SkipSpace(s, a)
        mon == lower(SubSeq(s, b, b + 2))
        q   == SkipSpace(s, b + 3)
        dd  == DigitsVal(SubSeq(s, 1, a - 1))
        yy  == DigitsVal(SubSeq(s, q + 1, q + 2))
        ms  == {m \in 1..12 : MonthAbbr[m] = mon}
    IN IF ms = {} THEN [exc |-> ValueError, val |-> 0]
       ELSE MakeDate(IF yy <= 68 THEN 2000 + yy ELSE 1900 + yy,
                     CHOOSE m \in ms : TRUE, dd)

\* datetime.strptime(s, "%d/%m/%Y") for s of the shape dd/dd/dddd.
strptime_hdfc(s) ==
    MakeDate(DigitsVal(SubSeq(s, 7, 10)), DigitsVal(SubSeq(s, 4, 5)), DigitsVal(SubSeq(s, 1, 2)))

(***************************************************************************)
(* parse_axis                                                              *)
(***************************************************************************)

\* The currency characters of the pattern of parse_axis, as the source file
\* holds them: U+00E2 U+201A U+00B9.
AxisCurrency == <<"U+00E2", "U+201A", "U+00B9">>

Debit == <<"D","e","b","i","t">>

Credit == <<"C","r","e","d","i","t">>

NoMatch == [ok |-> FALSE]

\* (\d{1,2}\s+\w{3}\s+'\d{2}) tried at position s: the position after the
\* group, or 0.  \d{1,2} takes two digits when there are two (one digit would
\* leave a digit where \s+ must match), each \s+ the whole run of spaces.
AxisDateEnd(line, s) ==
    LET a == IF IsDigit(At(line, s + 1)) THEN s + 2 ELSE s + 1
        b == SkipSpace(line, a)
        c == b + 3
        d == SkipSpace(line, c)
    IN IF /\ IsDigit(At(line, s))
          /\ b > a
          /\ \A k \in b..(b + 2) : IsWord(At(line, k))
          /\ d > c
          /\ At(line, d) = "'"
          /\ IsDigit(At(line, d + 1))
          /\ IsDigit(At(line, d + 2))
       THEN d + 3 ELSE 0

\* \s+<currency>\s*([\d,]+\.?\d*)\s+(Debit|Credit) tried at position e, the
\* end of the merchant group.  Every quantifier here is followed by a
\* character outside its class, so only the longest runs can match.
AxisTail(line, e) ==
    LET b  == SkipSpace(line, e)
        c  == SkipSpace(line, b + Len(AxisCurrency))
        r1 == SkipDigitsCommas(line, c)
        r2 == IF At(line, r1) = "." THEN r1 + 1 ELSE r1
        r3 == SkipDigits(line, r2)
        t  == SkipSpace(line, r3)
    IN IF /\ b > e
          /\ LitAt(line, b, AxisCurrency)
          /\ r1 > c
          /\ t > r3
          /\ (LitAt(line, t, Debit) \/ LitAt(line, t, Credit))
       THEN [ok |-> TRUE, amount_str |-> SubSeq(line, c, r3 - 1),
             trans_type |-> IF LitAt(line, t, Debit) THEN Debit ELSE Credit]
       ELSE NoMatch

\* The splits (k, e) of a line after a date group that ends before dEnd for
\* which the pattern matches: the first \s+ takes k spaces, (.+?) ends before
\* position e, and the rest of the pattern matches at e.
AxisSplits(line, dEnd) ==
    {ke \in (1..(SkipSpace(line, dEnd) - dEnd)) \X (1..Len(line)) :
        ke[2] > dEnd + ke[1] /\ AxisTail(line, ke[2]).ok}

\* The split the backtracking matcher finds first: a greedy \s+ gives back
\* spaces only when nothing matches with more, and a lazy (.+?) ends at the
\* first position from which the rest matches.
FirstSplit(cand) == CHOOSE x \in cand : \A y \in cand :
                        x[1] > y[1] \/ (x[1] = y[1] /\ x[2] <= y[2])

\* The groups of the match that starts at s with the split ke.
AxisGroups(line, s, dEnd, ke) ==
    [ok |-> TRUE,
     date_str   |-> SubSeq(line, s, dEnd - 1),
     merchant   |-> SubSeq(line, dEnd + ke[1], ke[2] - 1),
     amount_str |-> AxisTail(line, ke[2]).amount_str,
     trans_type |-> AxisTail(line, ke[2]).trans_type]

AxisMatchAmong(line, s, dEnd, cand) ==
    IF dEnd = 0 \/ cand = {} THEN NoMatch
    ELSE AxisGroups(line, s, dEnd, FirstSplit(cand))

\* The match of the pattern that starts at position s.
AxisMatchAt(line, s) ==
    AxisMatchAmong(line, s, AxisDateEnd(line, s), AxisSplits(line, AxisDateEnd(line, s)))

AxisLeftmost(line, starts) ==
    IF starts = {} THEN NoMatch
    ELSE AxisMatchAt(line, CHOOSE s \in starts : \A u \in starts : s <= u)

\* re.search(pattern, line): the match at the leftmost position that has one.
AxisSearch(line) == AxisLeftmost(line, {s \in 1..Len(line) : AxisMatchAt(line, s).ok})

\* AxisRecord without the test of the TYPE column: every matching line is kept.
AxisRecord_keeps_credit(match, date, amount, card) ==
    IF ~match.ok THEN [exc |-> None, rows |-> <<>>]
    ELSE IF date.exc # None \/ amount.exc # None THEN [exc |-> ValueError, rows |-> <<>>]
    ELSE [exc |-> None,
          rows |-> << [date |-> date.val, merchant |-> strip(match.merchant),
                       amount |-> amount.val, category |-> None,
                       bank |-> "Axis", card |-> card] >>]

\* The rest of the loop body of parse_axis once the groups are converted: no
\* row unless the line matches and is a Debit, the ValueError that strptime
\* or float raised, else the row appended.
AxisRecord(match, date, amount, card) ==
    IF ~match.ok \/ match.trans_type # Debit THEN [exc |-> None, rows |-> <<>>]
    ELSE IF date.exc # None \/ amount.exc # None THEN [exc |-> ValueError, rows |-> <<>>]
    ELSE [exc |-> None,
          rows |-> << [date |-> date.val, merchant |-> strip(match.merchant),
                       amount |-> amount.val, category |-> None,
                       bank |-> "Axis", card |-> card] >>]

AxisConvert(match, card) ==
    AxisRecord(match, strptime_axis(match.date_str),
               float(remove_commas(match.amount_str)), card)

\* The body of the loop of parse_axis for one line: the rows it appends (none
\* or one), or the ValueError that strptime or float raises.
AxisLine(line, card) == AxisConvert(AxisSearch(line), card)

\* The outcome of a loop over lines from the outcome h of its first line and
\* the outcome r of the rest: the first error ends the loop.
Gather(h, r) == IF h.exc # None THEN h
                ELSE IF r.exc # None THEN r
                ELSE [exc |-> None, rows |-> h.rows \o r.rows]

\* The loop of parse_axis over the lines: the rows gathered in line order, or
\* the first error.
RECURSIVE AxisLoop(_, _)
AxisLoop(lines, card) ==
    IF lines = <<>> THEN [exc |-> None, rows |-> <<>>]
    ELSE Gather(AxisLine(Head(lines), card), AxisLoop(Tail(lines), card))

\* parse_axis(text, card): [exc |-> None, rows |-> the DataFrame's rows], or
\* [exc |-> ValueError, ...] when the call raises.
parse_axis(txt, card) == AxisLoop(split_lines(txt), card)

(***************************************************************************)
(* extract_hdfc_category, CATEGORY_KEYWORDS, categorize_transaction        *)
(***************************************************************************)

\* any(x in s for x in words)
ContainsAny(s, words) == \E i \in 1..Len(words) : Contains(s, words[i])

extract_hdfc_category(m) ==
    LET merchant_lower == lower(m)
    IN IF ContainsAny(merchant_lower, << <<"w","e","s","t","s","i","d","e">>, <<"z","a","r","a">>,
                                         <<"h","&","m">>, <<"m","a","x"," ","f","a","s","h","i","o","n">> >>)
       THEN "Apparels"
       ELSE IF ContainsAny(merchant_lower, << <<"z","o","m","a","t","o">>, <<"s","w","i","g","g","y">>,
                                              <<"b","i","s","t","r","o">>,
                                              <<"r","e","s","t","a","u","r","a","n","t">> >>)
       THEN "Restaurant"
       ELSE IF ContainsAny(merchant_lower, << <<"b","l","i","n","k">>, <<"b","i","g","b","a","s","k","e","t">>,
                                              <<"d","m","a","r","t">>, <<"g","r","o","f","e","r","s">> >>)
       THEN "Groceries"
       ELSE IF ContainsAny(merchant_lower, << <<"u","b","e","r">>, <<"o","l","a">>,
                                              <<"r","a","p","i","d","o">> >>)
       THEN "Transport"
       ELSE None

\* The table, in the order the dict literal lists (and so iterates) it.
CATEGORY_KEYWORDS == <<
    [category |-> "Groceries", keywords |-> <<
        <<"b","i","g","b","a","s","k","e","t">>,
        <<"b","l","i","n","k","i","t">>,
        <<"z","e","p","t","o">>,
        <<"d","m","a","r","t">>,
        <<"r","e","l","i","a","n","c","e"," ","f","r","e","s","h">>,
        <<"m","o","r","e">>,
        <<"g","r","o","c","e","r","y">>,
        <<"b","l","i","n","k"," ","c","o","m","m","e","r","c","e">>,
        <<"i","n","s","t","a","m","a","r","t">>
    >>],
    [category |-> "Dining", keywords |-> <<
        <<"s","w","i","g","g","y">>,
        <<"z","o","m","a","t","o">>,
        <<"r","e","s","t","a","u","r","a","n","t">>,
        <<"c","a","f","e">>,
        <<"d","o","m","i","n","o","s">>,
        <<"p","i","z","z","a">>,
        <<"k","f","c">>,
        <<"m","c","d","o","n","a","l","d">>,
        <<"b","i","s","t","r","o">>
    >>],
    [category |-> "Shopping", keywords |-> <<
        <<"a","m","a","z","o","n">>,
        <<"f","l","i","p","k","a","r","t">>,
        <<"m","y","n","t","r","a">>,
        <<"a","j","i","o">>,
        <<"n","y","k","a","a">>,
        <<"m","e","e","s","h","o">>,
        <<"w","e","s","t","s","i","d","e">>,
        <<"m","a","x">>,
        <<"p","a","n","t","a","l","o","o","n","s">>,
        <<"f","a","s","h","n","e","a","r">>,
        <<"s","a","v","a","n","a">>
    >>],
    [category |-> "Transport", keywords |-> <<
        <<"u","b","e","r">>,
        <<"o","l","a">>,
        <<"r","a","p","i","d","o">>,
        <<"m","e","t","r","o">>,
        <<"p","e","t","r","o","l">>,
        <<"f","u","e","l">>,
        <<"h","p">>,
        <<"i","n","d","i","a","n"," ","o","i","l">>
    >>],
    [category |-> "Bills & Utilities", keywords |-> <<
        <<"e","l","e","c","t","r","i","c","i","t","y">>,
        <<"a","i","r","t","e","l">>,
        <<"j","i","o">>,
        <<"v","o","d","a","f","o","n","e">>,
        <<"b","r","o","a","d","b","a","n","d">>,
        <<"g","a","s">>,
        <<"w","a","t","e","r">>
    >>],
    [category |-> "Entertainment", keywords |-> <<
        <<"n","e","t","f","l","i","x">>,
        <<"p","r","i","m","e">>,
        <<"s","p","o","t","i","f","y">>,
        <<"b","o","o","k","m","y","s","h","o","w">>,
        <<"p","v","r">>,
        <<"h","o","t","s","t","a","r">>,
        <<"c","i","n","e","m","a">>,
        <<"d","i","s","t","r","i","c","t">>
    >>],
    [category |-> "Travel", keywords |-> <<
        <<"i","r","c","t","c">>,
        <<"m","a","k","e","m","y","t","r","i","p">>,
        <<"g","o","i","b","i","b","o">>,
        <<"c","l","e","a","r","t","r","i","p">>,
        <<"h","o","t","e","l">>,
        <<"f","l","i","g","h","t">>,
        <<"b","o","o","k","i","n","g">>
    >>],
    [category |-> "Health", keywords |-> <<
        <<"p","h","a","r","m","a","c","y">>,
        <<"a","p","o","l","l","o">>,
        <<"m","e","d","p","l","u","s">>,
        <<"h","o","s","p","i","t","a","l">>,
        <<"c","l","i","n","i","c">>,
        <<"d","o","c","t","o","r">>
    >>]
>>

\* Python truthiness of a category value: None and '' are false.
Truthy(c) == c # None /\ c # ""

\* pd.isna(merchant)
isna(m) == m = NaN

\* categorize_transaction where a later category of the table replaces an
\* earlier match: the last category that matches is returned.
categorize_transaction_last_match(m, existing) ==
    IF Truthy(existing) THEN existing
    ELSE IF isna(m) THEN "Other"
    ELSE LET merchant_lower == lower(m)
             hits == {i \in 1..Len(CATEGORY_KEYWORDS) :
                          ContainsAny(merchant_lower, CATEGORY_KEYWORDS[i].keywords)}
         IN IF hits = {} THEN "Other"
            ELSE CATEGORY_KEYWORDS[CHOOSE i \in hits : \A j \in hits : i >= j].category

\* categorize_transaction without the early return of the existing category:
\* the keyword table always decides.
categorize_transaction_ignores_existing(m, existing) ==
    IF isna(m) THEN "Other"
    ELSE LET merchant_lower == lower(m)
             hits == {i \in 1..Len(CATEGORY_KEYWORDS) :
                          ContainsAny(merchant_lower, CATEGORY_KEYWORDS[i].keywords)}
         IN IF hits = {} THEN "Other"
            ELSE CATEGORY_KEYWORDS[CHOOSE i \in hits : \A j \in hits : i <= j].category

\* categorize_transaction without the final `return 'Other'`: the function
\* falls off its end and returns None when no keyword matches.
categorize_transaction_no_default(m, existing) ==
    IF Truthy(existing) THEN existing
    ELSE IF isna(m) THEN "Other"
    ELSE LET merchant_lower == lower(m)
             hits == {i \in 1..Len(CATEGORY_KEYWORDS) :
                          ContainsAny(merchant_lower, CATEGORY_KEYWORDS[i].keywords)}
         IN IF hits = {} THEN None
            ELSE CATEGORY_KEYWORDS[CHOOSE i \in hits : \A j \in hits : i <= j].category

categorize_transaction(m, existing) ==
    IF Truthy(existing) THEN existing
    ELSE IF isna(m) THEN "Other"
    ELSE LET merchant_lower == lower(m)
             hits == {i \in 1..Len(CATEGORY_KEYWORDS) :
                          ContainsAny(merchant_lower, CATEGORY_KEYWORDS[i].keywords)}
         IN IF hits = {} THEN "Other"
            ELSE CATEGORY_KEYWORDS[CHOOSE i \in hits : \A j \in hits : i <= j].category

(***************************************************************************)
(* parse_hdfc                                                              *)
(***************************************************************************)

PAYMENT == <<"P","A","Y","M","E","N","T">>

BPPY == <<"B","P","P","Y">>

\* (\d{2}/\d{2}/\d{4})\|\s*(\d{2}:\d{2}) tried at position s: the position
\* after the time group, or 0.
HdfcHeadEnd(line, s) ==
    LET t == SkipSpace(line, s + 11)
    IN IF /\ \A k \in {0, 1, 3, 4, 6, 7, 8, 9} : IsDigit(At(line, s + k))
          /\ At(line, s + 2) = "/"
          /\ At(line, s + 5) = "/"
          /\ At(line, s + 10) = "|"
          /\ \A k \in {0, 1, 3, 4} : IsDigit(At(line, t + k))
          /\ At(line, t + 2) = ":"
       THEN t + 5 ELSE 0

\* (?:\s+\+\s*\d+) tried at position e: the position after it, or 0.  What
\* follows can begin with a space, a sign or C only, so only the longest runs
\* can lead to a match.
HdfcCoinsEnd(line, e) ==
    LET b == SkipSpace(line, e)
        c == SkipSpace(line, b + 1)
        d == SkipDigits(line, c)
    IN IF b > e /\ At(line, b) = "+" /\ d > c THEN d ELSE 0

\* (?:\.\d{2})? tried at position r: the position after it.
HdfcFractionEnd(line, r) ==
    IF At(line, r) = "." /\ IsDigit(At(line, r + 1)) /\ IsDigit(At(line, r + 2))
    THEN r + 3 ELSE r

\* \s*([+-]?\s*C)\s*([\d,]+(?:\.\d{2})?) tried at position p.  Nothing follows
\* the amount group in the pattern, so it takes the longest run of digits and
\* commas and then a point with two digits when they are there.
HdfcTail(line, p) ==
    LET b  == SkipSpace(line, p)
        c  == SkipSpace(line, IF At(line, b) \in {"+", "-"} THEN b + 1 ELSE b)
        d  == SkipSpace(line, c + 1)
        r1 == SkipDigitsCommas(line, d)
    IN IF At(line, c) = "C" /\ r1 > d
       THEN [ok |-> TRUE, txn_type |-> SubSeq(line, b, c),
             amount_str |-> SubSeq(line, d, HdfcFractionEnd(line, r1) - 1)]
       ELSE NoMatch

\* The rest of the pattern after the merchant group, tried at position e, q
\* being where the optional coins group ends (0: there is none): with the
\* coins group when that leads to a match, else without it.
HdfcRestFrom(line, e, q) ==
    IF q # 0 /\ HdfcTail(line, q).ok THEN HdfcTail(line, q) ELSE HdfcTail(line, e)

HdfcRest(line, e) == HdfcRestFrom(line, e, HdfcCoinsEnd(line, e))

\* The splits (k, e) of a line after a time group that ends before hEnd for
\* which the pattern matches: \s+ takes k spaces, (.+?) ends before e.
HdfcSplits(line, hEnd) ==
    {ke \in (1..(SkipSpace(line, hEnd) - hEnd)) \X (1..Len(line)) :
        ke[2] > hEnd + ke[1] /\ HdfcRest(line, ke[2]).ok}

\* The groups of the match that starts at s with the split ke.
HdfcGroups(line, s, hEnd, ke) ==
    [ok |-> TRUE,
     date_str   |-> SubSeq(line, s, s + 9),
     merchant   |-> SubSeq(line, hEnd + ke[1], ke[2] - 1),
     txn_type   |-> HdfcRest(line, ke[2]).txn_type,
     amount_str |-> HdfcRest(line, ke[2]).amount_str]

HdfcMatchAmong(line, s, hEnd, cand) ==
    IF hEnd = 0 \/ cand = {} THEN NoMatch
    ELSE HdfcGroups(line, s, hEnd, FirstSplit(cand))

\* The match that starts at position s: \s+ after the time is greedy, (.+?) lazy.
HdfcMatchAt(line, s) ==
    HdfcMatchAmong(line, s, HdfcHeadEnd(line, s), HdfcSplits(line, HdfcHeadEnd(line, s)))

HdfcLeftmost(line, starts) ==
    IF starts = {} THEN NoMatch
    ELSE HdfcMatchAt(line, CHOOSE s \in starts : \A u \in starts : s <= u)

HdfcSearch(line) == HdfcLeftmost(line, {s \in 1..Len(line) : HdfcMatchAt(line, s).ok})

\* IsPaymentLine with the word looked up in the line as written, not in its
\* upper-case form.
IsPaymentLine_case_sensitive(line) == Contains(line, PAYMENT) \/ Contains(line, BPPY)

\* The pre-filter of parse_hdfc: 'PAYMENT' in line.upper() or 'BPPY' in line.
IsPaymentLine(line) == Contains(upper(line), PAYMENT) \/ Contains(line, BPPY)

\* The rest of the loop body of parse_hdfc once the groups are converted.  A
\* date that strptime rejects skips the line (try/except); float is outside
\* the try.
HdfcRecord(line, match, is_credit, date, amount, m, card) ==
    IF IsPaymentLine(line) THEN [exc |-> None, rows |-> <<>>]
    ELSE IF ~match.ok THEN [exc |-> None, rows |-> <<>>]
    ELSE IF is_credit THEN [exc |-> None, rows |-> <<>>]
    ELSE IF date.exc # None THEN [exc |-> None, rows |-> <<>>]
    ELSE IF amount.exc # None THEN [exc |-> ValueError, rows |-> <<>>]
    ELSE [exc |-> None,
          rows |-> << [date |-> date.val, merchant |-> m,
                       amount |-> amount.val, category |-> extract_hdfc_category(m),
                       bank |-> "HDFC", card |-> card] >>]

HdfcConvert(line, match, card) ==
    HdfcRecord(line, match, Head(strip(match.txn_type)) = "+",
               strptime_hdfc(match.date_str),
               float(remove_commas(match.amount_str)),
               strip(match.merchant), card)

\* The body of the loop of parse_hdfc for one line.
HdfcLine(line, card) == HdfcConvert(line, HdfcSearch(line), card)

RECURSIVE HdfcLoop(_, _)
HdfcLoop(lines, card) ==
    IF lines = <<>> THEN [exc |-> None, rows |-> <<>>]
    ELSE Gather(HdfcLine(Head(lines), card), HdfcLoop(Tail(lines), card))

\* parse_hdfc(text, card), with the result shaped as that of parse_axis.
parse_hdfc(txt, card) == HdfcLoop(split_lines(txt), card)

(***************************************************************************)
(* detect_bank, detect_card                                                *)
(***************************************************************************)

detect_bank(txt) ==
    IF Contains(lower(txt), <<"a","x","i","s"," ","b","a","n","k">>) THEN "AXIS"
    ELSE IF Contains(lower(txt), <<"h","d","f","c"," ","b","a","n","k">>) THEN "HDFC"
    ELSE None

\* \s+w1\s+w2...\s+wn tried at position e: the position after it, or 0.
RECURSIVE SpacedWordsEnd(_, _, _)
SpacedWordsEnd(s, e, words) ==
    IF words = <<>> THEN e
    ELSE LET b == SkipSpace(s, e)
         IN IF b > e /\ LitAt(s, b, Head(words))
            THEN SpacedWordsEnd(s, b + Len(Head(words)), Tail(words))
            ELSE 0

HdfcHeaderWords == << <<"H","D","F","C">>, <<"B","A","N","K">>, <<"C","R","E","D","I","T">>,
                      <<"C","A","R","D">>, <<"S","T","A","T","E","M","E","N","T">> >>

\* str.replace('\n', ' ')
newlines_to_spaces(s) == [i \in 1..Len(s) |-> IF s[i] = "\n" THEN " " ELSE s[i]]

\* re.search(r"(.+?)\s+HDFC\s+BANK\s+CREDIT\s+CARD\s+STATEMENT", s, re.DOTALL):
\* with DOTALL the lazy group can start at the first character, so a match
\* exists iff the header words occur after at least one character, and group
\* 1 is the text before the first such occurrence.
HdfcHeaderSearch(s) ==
    LET ends == {e \in 2..Len(s) : SpacedWordsEnd(s, e, HdfcHeaderWords) # 0}
    IN IF ends = {} THEN NoMatch
       ELSE [ok |-> TRUE, prefix |-> SubSeq(s, 1, (CHOOSE e \in ends : \A u \in ends : e <= u) - 1)]

AxisWord == <<"A","X","I","S">>

CreditCardWords == <<"C","R","E","D","I","T"," ","C","A","R","D">>

\* AXIS\s+(.+?)\s+CREDIT CARD tried at position s (no DOTALL: the group holds
\* no line feed).
AxisHeaderMatchAt(s, p) ==
    LET a    == p + Len(AxisWord)
        m    == SkipSpace(s, a)
        cand == {ke \in (1..(m - a)) \X (1..Len(s)) :
                    /\ ke[2] > a + ke[1]
                    /\ \A i \in (a + ke[1])..(ke[2] - 1) : s[i] # "\n"
                    /\ SkipSpace(s, ke[2]) > ke[2]
                    /\ LitAt(s, SkipSpace(s, ke[2]), CreditCardWords)}
    IN IF ~LitAt(s, p, AxisWord) \/ cand = {} THEN NoMatch
       ELSE LET ke == CHOOSE x \in cand : \A y \in cand :
                          x[1] > y[1] \/ (x[1] = y[1] /\ x[2] <= y[2])
            IN [ok |-> TRUE, prefix |-> SubSeq(s, a + ke[1], ke[2] - 1)]

AxisHeaderSearch(s) ==
    LET starts == {p \in 1..Len(s) : AxisHeaderMatchAt(s, p).ok}
    IN IF starts = {} THEN NoMatch
       ELSE AxisHeaderMatchAt(s, CHOOSE p \in starts : \A u \in starts : p <= u)

detect_card(txt) ==
    LET text_upper == upper(txt)
        hdfc       == HdfcHeaderSearch(text_upper)
        axis       == AxisHeaderSearch(text_upper)
    IN IF hdfc.ok
       THEN LET prefix == strip(newlines_to_spaces(hdfc.prefix))
            IN IF Contains(prefix, <<"S","W","I","G","G","Y">>) THEN "HDFC Swiggy"
               ELSE IF Contains(prefix, <<"N","E","U">>) THEN "HDFC Tata Neu"
               ELSE "HDFC Credit Card"
       ELSE IF axis.ok
       THEN IF Contains(strip(axis.prefix), <<"F","L","I","P","K","A","R","T">>) THEN "Axis Flipkart"
            ELSE "Axis Bank Credit Card"
       ELSE "Unknown Card"

(***************************************************************************)
(* extract_text_from_pdf, parse_statement                                  *)
(***************************************************************************)

\* The None that extract_text_from_pdf returns, as a text value.
NoneText == <<None>>

\* A DataFrame is its rows in index order; NoneDF is the None returned in
\* place of one.
NoneDF == [is_none |-> TRUE, rows |-> <<>>]

DataFrame(rows) == [is_none |-> FALSE, rows |-> rows]

RECURSIVE JoinPages(_)
JoinPages(pages) == IF pages = <<>> THEN <<>>
                    ELSE Head(pages) \o <<"\n">> \o JoinPages(Tail(pages))

\* extract_text_from_pdf on a file: the pages' texts, each followed by a line
\* feed; None when the reader raises (the except branch).
extract_text(pdf) == IF pdf.readable THEN JoinPages(pdf.pages) ELSE NoneText

\* strftime('%b-%y') of a date.
strftime_b_y(date) ==
    LET mon == MonthAbbr[(date \div 100) % 100]
        yy  == (date \div 10000) % 100
    IN <<upper_char(mon[1]), mon[2], mon[3], "-", DigitChars[(yy \div 10) + 1], DigitChars[(yy % 10) + 1]>>

\* The two post-processing steps of parse_statement on one row: the category
\* column is replaced by categorize_transaction, year_month is added.
FinishRow(row) ==
    [date |-> row.date, merchant |-> row.merchant, amount |-> row.amount,
     category |-> categorize_transaction(row.merchant, row.category),
     bank |-> row.bank, card |-> row.card, year_month |-> strftime_b_y(row.date)]

\* The end of parse_statement (lines 276-295) from the bank and the outcome r
\* of its line parser.
StatementFrame(txt, bank, r) ==
    IF txt = NoneText \/ txt = <<>> THEN [exc |-> None, df |-> NoneDF]
    ELSE IF bank = None THEN [exc |-> None, df |-> NoneDF]
    ELSE IF r.exc # None THEN [exc |-> r.exc, df |-> NoneDF]
    ELSE IF r.rows = <<>> THEN [exc |-> None, df |-> NoneDF]
    ELSE [exc |-> None, df |-> DataFrame([i \in 1..Len(r.rows) |-> FinishRow(r.rows[i])])]

\* The choice of the line parser by the bank (lines 276-281).
ParseBank(txt, bank, card) ==
    StatementFrame(txt, bank, IF bank = "AXIS" THEN parse_axis(txt, card)
                              ELSE parse_hdfc(txt, card))

\* parse_statement from the extracted text on (lines 260-295):
\* [exc |-> None, df |-> the DataFrame or NoneDF] when it returns,
\* [exc |-> ValueError, ...] when a line parser raises.
parse_text(txt) == ParseBank(txt, detect_bank(txt), detect_card(txt))

parse_statement(pdf) == parse_text(extract_text(pdf))

(***************************************************************************)
(* Inputs: statement lines of the two layouts, built from their columns    *)
(***************************************************************************)

\* Longest text, in lines, given to a line parser.
MaxLines == 2

\* The rupee sign as a statement shows it.
Rupee == <<"U+20B9">>

Sp == <<" ">>

\* DATE column of Format A, with the date it denotes (ok = FALSE: no such day).
A_09Dec25 == [tok |-> <<"0","9"," ","D","e","c"," ","'","2","5">>, ok |-> TRUE,  val |-> 20251209]

A_20Nov25 == [tok |-> <<"2","0"," ","N","o","v"," ","'","2","5">>, ok |-> TRUE,  val |-> 20251120]

A_05Jan26 == [tok |-> <<"0","5"," ","J","a","n"," ","'","2","6">>, ok |-> TRUE,  val |-> 20260105]

A_45Dec25 == [tok |-> <<"4","5"," ","D","e","c"," ","'","2","5">>, ok |-> FALSE, val |-> 0]

AxisDates == {A_09Dec25, A_20Nov25, A_05Jan26, A_45Dec25}

FlipkartPayments == <<"F","L","I","P","K","A","R","T"," ","P","A","Y","M","E","N","T","S",",","B","A","N","G","A","L","O","R","E">>

SwiggyInstamart == <<"S","W","I","G","G","Y"," ","I","N","S","T","A","M","A","R","T">>

XyzStore == <<"X","Y","Z"," ","S","T","O","R","E">>

AxisMerchants == {FlipkartPayments, SwiggyInstamart, XyzStore}

\* AMOUNT column of Format A, with the number it denotes (ok = FALSE: none).
Amt534 == [tok |-> <<"5","3","4",".","0","0">>, ok |-> TRUE, val |-> <<534, 0>>]

Amt2244 == [tok |-> <<"2",",","2","4","4",".","0","0">>, ok |-> TRUE, val |-> <<2244, 0>>]

Amt12_5 == [tok |-> <<"1","2",".","5">>, ok |-> TRUE, val |-> <<125, 1>>]

Amt0_00 == [tok |-> <<"0",".","0","0">>, ok |-> TRUE, val |-> <<0, 0>>]

Amt0 == [tok |-> <<"0">>, ok |-> TRUE, val |-> <<0, 0>>]

AmtComma == [tok |-> <<",">>, ok |-> FALSE, val |-> <<0, 0>>]

AxisAmounts == {Amt534, Amt2244, Amt12_5, Amt0_00, AmtComma}

AxisFields == [date : AxisDates, merchant : AxisMerchants, currency : {Rupee, AxisCurrency},
               amount : AxisAmounts, type : {Debit, Credit}]

\* A Format-A line: DATE  MERCHANT  CURRENCY AMOUNT  TYPE.
AxisLineOf(f) == f.date.tok \o Sp \o Sp \o f.merchant \o Sp \o Sp \o f.currency \o Sp
                 \o f.amount.tok \o Sp \o Sp \o f.type

AxisCases == {[f |-> f, line |-> AxisLineOf(f)] : f \in AxisFields}

\* Lines that surround transaction lines: a table header and one more debit.
AxisContext == {
    <<"D","a","t","e"," ","T","r","a","n","s","a","c","t","i","o","n"," ","D","e","t","a","i","l","s"," ","A","m","o","u","n","t">>,
    AxisLineOf([date |-> A_20Nov25, merchant |-> XyzStore, currency |-> AxisCurrency,
                amount |-> Amt12_5, type |-> Debit]) }

H_20Nov25 == [tok |-> <<"2","0","/","1","1","/","2","0","2","5">>, ok |-> TRUE,  val |-> 20251120]

H_05Jan26 == [tok |-> <<"0","5","/","0","1","/","2","0","2","6">>, ok |-> TRUE,  val |-> 20260105]

H_31Feb25 == [tok |-> <<"3","1","/","0","2","/","2","0","2","5">>, ok |-> FALSE, val |-> 0]

HdfcDates == {H_20Nov25, H_05Jan26, H_31Feb25}

WestsideMumbai == <<"W","E","S","T","S","I","D","E","M","U","M","B","A","I">>

PaymentReceived == <<"P","a","y","m","e","n","t"," ","R","e","c","e","i","v","e","d">>

UpiBppyRef == <<"U","P","I"," ","B","P","P","Y"," ","R","E","F">>

Irctc4521 == <<"I","R","C","T","C"," ","4","5","2","1">>

HdfcMerchants == {WestsideMumbai, SwiggyInstamart, PaymentReceived, UpiBppyRef, Irctc4521, XyzStore}

\* The optional NeuCoins column.
Coins22 == <<"+"," ","2","2">>

HdfcCoins == {<<>>, Coins22}

\* The sign before the currency marker: none (a debit) or + (a credit).
Plus == <<"+">>

HdfcSigns == {<<>>, Plus}

HdfcAmounts == {Amt2244, Amt0, AmtComma}

HdfcFields == [date : HdfcDates, merchant : HdfcMerchants, coins : HdfcCoins,
               sign : HdfcSigns, amount : HdfcAmounts]

Opt(tok) == IF tok = <<>> THEN <<>> ELSE tok \o Sp

\* A Format-B line: DATE| TIME MERCHANT [+N] [SIGN] C AMOUNT PI.
HdfcLineOf(f) == f.date.tok \o <<"|"," ","2","0",":","4","0"," ">> \o f.merchant \o Sp
                 \o Opt(f.coins) \o Opt(f.sign) \o <<"C"," ">> \o f.amount.tok \o <<" ","l">>

HdfcCases == {[f |-> f, line |-> HdfcLineOf(f)] : f \in HdfcFields}

HdfcContext == {
    <<"D","A","T","E"," ","&"," ","T","I","M","E"," ","T","R","A","N","S","A","C","T","I","O","N"," ","D","E","S","C","R","I","P","T","I","O","N"," ","A","M","O","U","N","T">>,
    HdfcLineOf([date |-> H_05Jan26, merchant |-> XyzStore, coins |-> <<>>, sign |-> <<>>,
                amount |-> Amt534]) }

\* The texts of at most n + 1 lines that extend the texts of T by context lines.
RECURSIVE Extend(_, _, _)
Extend(T, ctx, n) == IF n <= 0 THEN T
                     ELSE Extend(T \cup {t \o <<"\n">> \o c : t \in T, c \in ctx}, ctx, n - 1)

AxisTexts == Extend({c.line : c \in AxisCases}, AxisContext, MaxLines - 1)

HdfcTexts == Extend({c.line : c \in HdfcCases}, HdfcContext, MaxLines - 1)

AxisCards == {"Axis Flipkart", "Axis Bank Credit Card"}

HdfcCards == {"HDFC Tata Neu", "HDFC Credit Card"}

(***************************************************************************)
(* The line parsers as operations: SpecParsers applies parse_axis and      *)
(* parse_hdfc to every text of the input space                             *)
(***************************************************************************)

IdleBatch == /\ pdf_files = <<>> /\ idx = 0 /\ all_transactions = <<>>
             /\ warnings = <<>> /\ combined_df = NoneDF

IdleClassifier == merchant = <<>> /\ existing_category = None /\ category = None

InitParsers == /\ IdleBatch /\ IdleClassifier
               /\ pc = "call"
               /\ text \in AxisTexts \cup HdfcTexts
               /\ df = NoneDF

ParserVarsUnchanged == UNCHANGED <<pdf_files, idx, all_transactions, warnings, combined_df,
                                   text, merchant, existing_category, category>>

\* A line parser returns: r is the outcome of its loop, the rows become the
\* DataFrame it returns.
ParserReturns(r) == r.exc = None /\ df' = DataFrame(r.rows)

AxisReturn == /\ pc = "call"
              /\ \E card \in AxisCards : ParserReturns(parse_axis(text, card))
              /\ pc' = "axis_returned"
              /\ ParserVarsUnchanged

AxisRaise == /\ pc = "call"
             /\ parse_axis(text, "Axis Flipkart").exc # None
             /\ pc' = "axis_raised"
             /\ df' = df
             /\ ParserVarsUnchanged

HdfcReturn == /\ pc = "call"
              /\ \E card \in HdfcCards : ParserReturns(parse_hdfc(text, card))
              /\ pc' = "hdfc_returned"
              /\ ParserVarsUnchanged

HdfcRaise == /\ pc = "call"
             /\ parse_hdfc(text, "HDFC Tata Neu").exc # None
             /\ pc' = "hdfc_raised"
             /\ df' = df
             /\ ParserVarsUnchanged

NextParsers == AxisReturn \/ AxisRaise \/ HdfcReturn \/ HdfcRaise

SpecParsers == InitParsers /\ [][NextParsers]_vars

(***************************************************************************)
(* categorize_transaction as an operation: SpecCat                         *)
(***************************************************************************)

SwiggyInstamartOrder == <<"S","w","i","g","g","y"," ","I","n","s","t","a","m","a","r","t"," ","O","r","d","e","r">>

CatMerchants == AxisMerchants \cup HdfcMerchants \cup {
    SwiggyInstamartOrder,
    <<"U","b","e","r"," ","I","n","d","i","a">>,
    <<"A","m","a","z","o","n"," ","P","r","i","m","e">>,
    <<"A","p","o","l","l","o"," ","P","h","a","r","m","a","c","y">>,
    <<"N","e","t","f","l","i","x">>,
    <<"A","i","r","t","e","l"," ","B","r","o","a","d","b","a","n","d">>,
    <<"M","a","k","e","M","y","T","r","i","p"," ","H","o","t","e","l">>,
    <<"Z","o","m","a","t","o">>,
    <<>>,
    NaN }

\* The values the category column holds when parse_statement classifies: None
\* (parse_axis, and parse_hdfc without a hint) or a label of extract_hdfc_category.
HintLabels == {"Apparels", "Restaurant", "Groceries", "Transport"}

InitCat == /\ IdleBatch
           /\ text = <<>> /\ df = NoneDF
           /\ pc = "call"
           /\ merchant \in CatMerchants
           /\ existing_category \in HintLabels \cup {None}
           /\ category = None

Categorize == /\ pc = "call"
              /\ category' = categorize_transaction(merchant, existing_category)
              /\ pc' = "returned"
              /\ UNCHANGED <<pdf_files, idx, all_transactions, warnings, combined_df,
                             text, df, merchant, existing_category>>

NextCat == Categorize

SpecCat == InitCat /\ [][NextCat]_vars

(***************************************************************************)
(* parse_statement as an operation on one extracted text: SpecStmt         *)
(***************************************************************************)

Headers == {
    <<"A","x","i","s"," ","B","a","n","k"," ","F","l","i","p","k","a","r","t"," ","C","r","e","d","i","t"," ","C","a","r","d"," ","S","t","a","t","e","m","e","n","t">>,
    <<"A","x","i","s"," ","B","a","n","k"," ","S","t","a","t","e","m","e","n","t">>,
    <<"T","a","t","a"," ","N","e","u"," ","I","n","f","i","n","i","t","y"," ","H","D","F","C"," ","B","a","n","k"," ","C","r","e","d","i","t"," ","C","a","r","d"," ","S","t","a","t","e","m","e","n","t">>,
    <<"H","D","F","C"," ","B","a","n","k"," ","S","t","a","t","e","m","e","n","t">>,
    <<"I","C","I","C","I"," ","B","a","n","k"," ","S","t","a","t","e","m","e","n","t">>,
    <<"A","x","i","s"," ","F","l","i","p","k","a","r","t"," ","C","r","e","d","i","t"," ","C","a","r","d"," ","S","t","a","t","e","m","e","n","t">>,
    <<"T","a","t","a"," ","N","e","u"," ","I","n","f","i","n","i","t","y"," ","H","D","F","C","\n">>
        \o <<"B","a","n","k"," ","C","r","e","d","i","t"," ","C","a","r","d"," ","S","t","a","t","e","m","e","n","t">>,
    <<"P","a","i","d"," ","v","i","a"," ","A","x","i","s"," ","B","a","n","k","\n">>
        \o <<"S","w","i","g","g","y"," ","H","D","F","C"," ","B","a","n","k"," ","C","r","e","d","i","t"," ","C","a","r","d"," ","S","t","a","t","e","m","e","n","t">> }

\* The transaction lines of the statement texts: one date per outcome (a real
\* day, no such day), one amount per outcome (a number, none).
StmtAxisLines == {c.line : c \in {x \in AxisCases : /\ x.f.date \in {A_09Dec25, A_45Dec25}
                                                    /\ x.f.amount \in {Amt534, AmtComma}}}

StmtHdfcLines == {c.line : c \in {x \in HdfcCases : /\ x.f.date \in {H_20Nov25, H_31Feb25}
                                                    /\ x.f.amount \in {Amt2244, AmtComma}
                                                    /\ x.f.coins = <<>>}}

StmtBodies == Extend(StmtAxisLines, AxisContext, MaxLines - 1)
                  \cup Extend(StmtHdfcLines, HdfcContext, MaxLines - 1)

\* The extracted texts: a one-page statement (header, lines), the empty text
\* of a file with no page, and the None of a failed extraction.
StatementTexts == {h \o <<"\n">> \o b \o <<"\n">> : h \in Headers, b \in StmtBodies}
                      \cup {<<>>, NoneText}

InitStmt == /\ IdleBatch /\ IdleClassifier
            /\ pc = "call"
            /\ text \in StatementTexts
            /\ df = NoneDF

\* parse_statement returns: r is its outcome.
StatementReturns(r) == r.exc = None /\ df' = r.df

StatementReturn == /\ pc = "call"
                   /\ StatementReturns(parse_text(text))
                   /\ pc' = "stmt_returned"
                   /\ ParserVarsUnchanged

StatementRaise == /\ pc = "call"
                  /\ parse_text(text).exc # None
                  /\ pc' = "stmt_raised"
                  /\ df' = df
                  /\ ParserVarsUnchanged

NextStmt == StatementReturn \/ StatementRaise

SpecStmt == InitStmt /\ [][NextStmt]_vars

(***************************************************************************)
(* parse_multiple_statements: Spec                                         *)
(***************************************************************************)

\* Longest batch of files.
MaxFiles == 3

AxisHeader == <<"A","x","i","s"," ","B","a","n","k"," ","F","l","i","p","k","a","r","t"," ","C","r","e","d","i","t"," ","C","a","r","d"," ","S","t","a","t","e","m","e","n","t">>

HdfcHeader == <<"T","a","t","a"," ","N","e","u"," ","I","n","f","i","n","i","t","y"," ","H","D","F","C"," ","B","a","n","k"," ","C","r","e","d","i","t"," ","C","a","r","d"," ","S","t","a","t","e","m","e","n","t">>

IciciHeader == <<"I","C","I","C","I"," ","B","a","n","k"," ","S","t","a","t","e","m","e","n","t">>

RECURSIVE JoinLines(_)
JoinLines(lines) == IF lines = <<>> THEN <<>>
                    ELSE IF Len(lines) = 1 THEN Head(lines)
                    ELSE Head(lines) \o <<"\n">> \o JoinLines(Tail(lines))

AxisL(d, m, cur, a, t) == AxisLineOf([date |-> d, merchant |-> m, currency |-> cur, amount |-> a, type |-> t])

HdfcL(d, m, c, sg, a) == HdfcLineOf([date |-> d, merchant |-> m, coins |-> c, sign |-> sg, amount |-> a])

\* The files a batch can name: what the PDF reader finds at each path.
Files == {
    \* Format A, two debits out of date order and a credit.
    [path |-> <<"t","/","f","l","i","p",".","p","d","f">>, readable |-> TRUE,
     pages |-> << JoinLines(<< AxisHeader,
                     AxisL(A_05Jan26, FlipkartPayments, AxisCurrency, Amt534, Debit),
                     AxisL(A_20Nov25, XyzStore, AxisCurrency, Amt12_5, Debit),
                     AxisL(A_09Dec25, SwiggyInstamart, AxisCurrency, Amt2244, Credit) >>) >>],
    \* Format B, one debit, a payment and a credit.
    [path |-> <<"t","/","n","e","u",".","p","d","f">>, readable |-> TRUE,
     pages |-> << JoinLines(<< HdfcHeader,
                     HdfcL(H_20Nov25, WestsideMumbai, Coins22, <<>>, Amt2244),
                     HdfcL(H_05Jan26, PaymentReceived, <<>>, Plus, Amt534),
                     HdfcL(H_05Jan26, XyzStore, <<>>, Plus, Amt534) >>) >>],
    \* Format B on two pages, repeating a transaction of t/neu.pdf.
    [path |-> <<"t","/","n","e","u","2",".","p","d","f">>, readable |-> TRUE,
     pages |-> << JoinLines(<< HdfcHeader,
                     HdfcL(H_05Jan26, SwiggyInstamart, <<>>, <<>>, Amt534) >>),
                  HdfcL(H_20Nov25, WestsideMumbai, Coins22, <<>>, Amt2244) >>],
    \* No supported bank signature.
    [path |-> <<"t","/","i","c","i","c","i",".","p","d","f">>, readable |-> TRUE,
     pages |-> << JoinLines(<< IciciHeader,
                     HdfcL(H_20Nov25, XyzStore, <<>>, <<>>, Amt534) >>) >>],
    \* Bank recognized, no debit line.
    [path |-> <<"t","/","e","m","p","t","y",".","p","d","f">>, readable |-> TRUE,
     pages |-> << JoinLines(<< HdfcHeader,
                     HdfcL(H_20Nov25, XyzStore, <<>>, Plus, Amt534) >>) >>],
    \* Format A as a statement prints it, with the rupee sign.
    [path |-> <<"t","/","r","u","p","e","e",".","p","d","f">>, readable |-> TRUE,
     pages |-> << JoinLines(<< AxisHeader,
                     AxisL(A_09Dec25, FlipkartPayments, Rupee, Amt534, Debit) >>) >>],
    \* Format A with a date column that names no day.
    [path |-> <<"t","/","b","a","d",".","p","d","f">>, readable |-> TRUE,
     pages |-> << JoinLines(<< AxisHeader,
                     AxisL(A_45Dec25, XyzStore, AxisCurrency, Amt534, Debit) >>) >>],
    \* A file the PDF reader cannot open.
    [path |-> <<"t","/","l","o","c","k","e","d",".","p","d","f">>, readable |-> FALSE,
     pages |-> <<>>] }

Paths == {f.path : f \in Files}

FileAt(path) == CHOOSE f \in Files : f.path = path

\* parse_statement(pdf_path) for every path, computed once.
Parsed == [path \in Paths |-> parse_statement(FileAt(path))]

\* Path(f).stem: the last component of the path without its last suffix.
stem(path) ==
    LET slashes == {i \in 1..Len(path) : path[i] = "/"}
        start   == IF slashes = {} THEN 1 ELSE 1 + CHOOSE i \in slashes : \A j \in slashes : i >= j
        name    == SubSeq(path, start, Len(path))
        dots    == {i \in 2..(Len(name) - 1) : name[i] = "."}
    IN IF dots = {} THEN name
       ELSE SubSeq(name, 1, (CHOOSE i \in dots : \A j \in dots : i >= j) - 1)

\* The sequences over S of length at most n.
RECURSIVE SeqsUpTo(_, _)
SeqsUpTo(S, n) == IF n = 0 THEN {<<>>}
                  ELSE LET shorter == SeqsUpTo(S, n - 1)
                       IN shorter \cup {Append(q, x) : q \in shorter, x \in S}

\* The outcome if combining kept one copy of a record that two statements hold.
RECURSIVE concat_drop_duplicates(_)
concat_drop_duplicates(frames) ==
    IF frames = <<>> THEN <<>>
    ELSE SelectSeq(Head(frames).rows,
                   LAMBDA r : \A k \in 1..Len(concat_drop_duplicates(Tail(frames))) :
                                  concat_drop_duplicates(Tail(frames))[k] # r)
             \o concat_drop_duplicates(Tail(frames))

\* pd.concat(frames, ignore_index=True): the rows of the frames, in order.
RECURSIVE concat(_)
concat(frames) == IF frames = <<>> THEN <<>>
                  ELSE Head(frames).rows \o concat(Tail(frames))

RemoveAt(rows, i) == SubSeq(rows, 1, i - 1) \o SubSeq(rows, i + 1, Len(rows))

\* The outcome if the combined rows were returned as concatenated, unsorted.
sort_values_date_skipped(rows) == {rows}

\* sort_values('date') with the default (unstable) sort: every arrangement of
\* the rows in which the dates do not decrease.
RECURSIVE sort_values_date(_)
sort_values_date(rows) ==
    IF rows = <<>> THEN {<<>>}
    ELSE UNION {{<<rows[i]>> \o rest : rest \in sort_values_date(RemoveAt(rows, i))} :
                   i \in {k \in 1..Len(rows) : \A j \in 1..Len(rows) : rows[k].date <= rows[j].date}}

Init == /\ IdleClassifier
        /\ text = <<>> /\ df = NoneDF
        /\ pdf_files \in SeqsUpTo(Paths, MaxFiles)
        /\ idx = 1
        /\ all_transactions = <<>>
        /\ warnings = <<>>
        /\ combined_df = NoneDF
        /\ pc = "loop"

BatchVarsUnchanged == UNCHANGED <<pdf_files, text, df, merchant, existing_category, category>>

\* One pass of the loop where parse_statement returns a non-empty DataFrame.
\* `if df is not None and not df.empty` holds of the outcome r of
\* parse_statement: the DataFrame is appended.
AppendsFrame(r) == /\ r.exc = None
                   /\ ~r.df.is_none /\ r.df.rows # <<>>
                   /\ all_transactions' = Append(all_transactions, r.df)

\* The else branch: nothing usable came back.
SkipsFile(r) == /\ r.exc = None
                /\ r.df.is_none \/ r.df.rows = <<>>

LoopAppend == /\ pc = "loop" /\ idx <= Len(pdf_files)
              /\ AppendsFrame(Parsed[pdf_files[idx]])
              /\ idx' = idx + 1
              /\ UNCHANGED <<warnings, combined_df, pc>>
              /\ BatchVarsUnchanged

\* One pass of the loop where parse_statement returns None: the warning
\* "Could not parse {name}" is printed.
LoopWarn == /\ pc = "loop" /\ idx <= Len(pdf_files)
            /\ SkipsFile(Parsed[pdf_files[idx]])
            /\ warnings' = Append(warnings, stem(pdf_files[idx]))
            /\ idx' = idx + 1
            /\ UNCHANGED <<all_transactions, combined_df, pc>>
            /\ BatchVarsUnchanged

\* One pass of the loop where parse_statement raises: nothing catches the
\* error, it leaves parse_multiple_statements.
LoopRaise == /\ pc = "loop" /\ idx <= Len(pdf_files)
             /\ Parsed[pdf_files[idx]].exc # None
             /\ pc' = "raised"
             /\ UNCHANGED <<idx, all_transactions, warnings, combined_df>>
             /\ BatchVarsUnchanged

\* After the loop with no DataFrame gathered: return None.
ReturnNone == /\ pc = "loop" /\ idx > Len(pdf_files)
              /\ all_transactions = <<>>
              /\ combined_df' = NoneDF
              /\ pc' = "done"
              /\ UNCHANGED <<idx, all_transactions, warnings>>
              /\ BatchVarsUnchanged

\* After the loop: concatenate, sort by date, return.
ReturnCombined == /\ pc = "loop" /\ idx > Len(pdf_files)
                  /\ all_transactions # <<>>
                  /\ \E sorted \in sort_values_date(concat(all_transactions)) :
                        combined_df' = DataFrame(sorted)
                  /\ pc' = "done"
                  /\ UNCHANGED <<idx, all_transactions, warnings>>
                  /\ BatchVarsUnchanged

Next == LoopAppend \/ LoopWarn \/ LoopRaise \/ ReturnNone \/ ReturnCombined

Spec == Init /\ [][Next]_vars

(***************************************************************************)
(* Properties of parse_multiple_statements (Spec)                          *)
(***************************************************************************)

\* Number of positions of seq that hold x.
Count(seq, x) == Cardinality({i \in 1..Len(seq) : seq[i] = x})

\* parse_statement fails softly on the file: it returns None.
FailsSoftly(path) == Parsed[path].exc = None /\ Parsed[path].df.is_none

\* parse_statement parses the file: it returns a DataFrame with rows.
ParsesOk(path) == Parsed[path].exc = None /\ ~Parsed[path].df.is_none

\* The labels of the files of the batch that fail softly, in batch order.
RECURSIVE SoftLabels(_)
SoftLabels(files) == IF files = <<>> THEN <<>>
                     ELSE (IF FailsSoftly(Head(files)) THEN <<stem(Head(files))>> ELSE <<>>)
                              \o SoftLabels(Tail(files))

\* C1: once parse_multiple_statements has left its loop, for every batch, the
\* warnings are the labels of the softly failing statements (one warning
\* each, wherever they stand in the batch), and the result holds every record
\* of every statement of the batch that parses, as often as that statement has it.
C1_SoftFailuresSkippedRestKept ==
    pc # "loop" =>
        /\ warnings = SoftLabels(pdf_files)
        /\ \A i \in 1..Len(pdf_files) :
              ParsesOk(pdf_files[i]) =>
                  \A k \in 1..Len(Parsed[pdf_files[i]].df.rows) :
                      LET row == Parsed[pdf_files[i]].df.rows[k]
                      IN Count(combined_df.rows, row) >= Count(Parsed[pdf_files[i]].df.rows, row)

\* C3: the combined ledger that parse_multiple_statements returns is
\* non-decreasing by date.
C3_CombinedSortedByDate ==
    (pc = "done" /\ ~combined_df.is_none) =>
        \A i \in 1..Len(combined_df.rows) : \A j \in i..Len(combined_df.rows) :
            combined_df.rows[i].date <= combined_df.rows[j].date

\* A batch of statements given out of date order, with rows out of date order
\* inside a statement, has been combined: the ledger is not the concatenation.
C3_Witness ==
    /\ pc = "done"
    /\ Len(all_transactions) >= 2
    /\ Len(combined_df.rows) >= 3
    /\ combined_df.rows # concat(all_transactions)
    /\ \E f \in 1..Len(all_transactions) :
          Len(all_transactions[f].rows) = 2
              /\ all_transactions[f].rows[1].date > all_transactions[f].rows[2].date

(***************************************************************************)
(* Properties of the line parsers (SpecParsers)                            *)
(***************************************************************************)

\* The lines of the text the parser was called on.
TextLines == split_lines(text)

\* The rows hold a row with the date, merchant and amount of the row r.
HoldsRecord(rows, r) ==
    \E k \in 1..Len(rows) : /\ rows[k].date = r.date
                            /\ rows[k].merchant = r.merchant
                            /\ rows[k].amount = r.amount

\* C2: a line parser never raises: on every text parse_axis and parse_hdfc
\* return; a line that alone yields a record still has its record in the
\* result whatever the other lines of the text hold (a malformed line is
\* skipped alone); and when no line matches the pattern the result is empty.
C2_LineParsersNeverRaise ==
    /\ pc \notin {"axis_raised", "hdfc_raised"}
    /\ pc = "axis_returned" =>
          /\ \A i \in 1..Len(TextLines) :
                \A card \in AxisCards :
                    AxisLine(TextLines[i], card).exc = None =>
                        \A k \in 1..Len(AxisLine(TextLines[i], card).rows) :
                            HoldsRecord(df.rows, AxisLine(TextLines[i], card).rows[k])
          /\ (\A i \in 1..Len(TextLines) : ~AxisSearch(TextLines[i]).ok) => df.rows = <<>>
    /\ pc = "hdfc_returned" =>
          /\ \A i \in 1..Len(TextLines) :
                \A card \in HdfcCards :
                    HdfcLine(TextLines[i], card).exc = None =>
                        \A k \in 1..Len(HdfcLine(TextLines[i], card).rows) :
                            HoldsRecord(df.rows, HdfcLine(TextLines[i], card).rows[k])
          /\ (\A i \in 1..Len(TextLines) : ~HdfcSearch(TextLines[i]).ok) => df.rows = <<>>

\* The valid Format-A debit lines as a statement prints them: the rupee sign
\* in the currency column, a date that names a day, an amount that is a number.
ValidRupeeDebits ==
    {c \in AxisCases : /\ c.f.currency = Rupee
                       /\ c.f.type = Debit
                       /\ c.f.date.ok
                       /\ c.f.amount.ok}

\* C4: parse_axis on a valid Format-A debit line
\* `DD MMM 'YY  MERCHANT  <rupee sign> AMOUNT  Debit` returns exactly one
\* record, with the date, the merchant text and the amount of the line and
\* bank Axis.
C4_FormatADebitRoundTrips ==
    \A c \in ValidRupeeDebits :
        text = c.line =>
            /\ pc # "axis_raised"
            /\ pc = "axis_returned" =>
                  /\ Len(df.rows) = 1
                  /\ df.rows[1].date = c.f.date.val
                  /\ df.rows[1].merchant = c.f.merchant
                  /\ df.rows[1].amount = c.f.amount.val
                  /\ df.rows[1].bank = "Axis"

\* The TYPE column of the line reads w: the line ends with it.
TypeColumnIs(line, w) == LitAt(line, Len(line) - Len(w) + 1, w)

\* The positions of the lines of the text whose TYPE column is not Credit.
NonCreditLines == {i \in 1..Len(TextLines) : ~TypeColumnIs(TextLines[i], Credit)}

\* Every row comes from a line of its own among the lines at the positions
\* S: the line holds the row's merchant, and no line accounts for two rows.
RowsComeFrom(rows, S) ==
    \E from \in [1..Len(rows) -> S] :
        /\ \A j, k \in 1..Len(rows) : from[j] = from[k] => j = k
        /\ \A k \in 1..Len(rows) : Contains(TextLines[from[k]], rows[k].merchant)

\* C5: no Format-A line whose TYPE column is Credit produces a record of
\* parse_axis: every record returned comes from a line of its own whose TYPE
\* column is not Credit.
C5_CreditLinesNeverRetained ==
    pc = "axis_returned" => RowsComeFrom(df.rows, NonCreditLines)

\* parse_axis has returned on a text of two lines, a Credit line that matches
\* the pattern with a real date and amount and then a Debit line: one record.
C5_Witness ==
    /\ pc = "axis_returned"
    /\ Len(TextLines) = 2
    /\ \E c \in AxisCases : /\ c.f.type = Credit /\ c.f.currency = AxisCurrency
                            /\ c.f.date.ok /\ c.f.amount.ok
                            /\ TextLines[1] = c.line
    /\ TypeColumnIs(TextLines[2], Debit)
    /\ Len(df.rows) = 1

\* The line holds the word "payment" in any letter case, or the marker BPPY.
MentionsPayment(line) ==
    \/ Contains(lower(line), <<"p","a","y","m","e","n","t">>)
    \/ Contains(line, BPPY)

\* The positions of the lines of the text that mention no payment.
NonPaymentLines == {i \in 1..Len(TextLines) : ~MentionsPayment(TextLines[i])}

\* C6: no Format-B line that holds the word PAYMENT in any letter case, or
\* the marker BPPY, produces a record of parse_hdfc, whatever its amount and
\* sign: every record returned comes from a line of its own that holds neither.
C6_PaymentLinesNeverRetained ==
    pc = "hdfc_returned" => RowsComeFrom(df.rows, NonPaymentLines)

\* parse_hdfc has returned on a text of two lines: a line that matches the
\* pattern as a debit with a real date and amount and mentions a payment
\* ("Payment Received", or "UPI BPPY REF"), then a debit that does not: one
\* record.
C6_Witness ==
    /\ pc = "hdfc_returned"
    /\ Len(TextLines) = 2
    /\ \E c \in HdfcCases : /\ c.f.merchant \in {PaymentReceived, UpiBppyRef}
                            /\ c.f.sign = <<>>
                            /\ c.f.date.ok /\ c.f.amount.ok
                            /\ TextLines[1] = c.line
    /\ ~MentionsPayment(TextLines[2])
    /\ Len(df.rows) = 1
    /\ df.rows[1].merchant = XyzStore

\* The Format-B lines that are no payment and carry a real date and amount.
PlainHdfcCases ==
    {c \in HdfcCases : /\ ~MentionsPayment(c.line)
                       /\ c.f.date.ok
                       /\ c.f.amount.ok}

\* C7: parse_hdfc on a Format-B line whose sign before the currency marker
\* is + (a credit) returns no record; on the same line with no sign (a debit)
\* it returns one record with the date and the amount of the line, with or
\* without a +N coins column.
C7_SignDecidesCreditOrDebit ==
    \A c \in PlainHdfcCases :
        (text = c.line /\ pc = "hdfc_returned") =>
            IF c.f.sign = Plus
            THEN df.rows = <<>>
            ELSE /\ Len(df.rows) = 1
                 /\ df.rows[1].date = c.f.date.val
                 /\ df.rows[1].amount = c.f.amount.val

(***************************************************************************)
(* Properties of categorize_transaction (SpecCat)                          *)
(***************************************************************************)

\* The order of the categories of the table, as the specification pins it.
PinnedOrder == <<"Groceries", "Dining", "Shopping", "Transport",
                 "Bills & Utilities", "Entertainment", "Travel", "Health">>

\* The keyword list the table gives the category.
KeywordsOf(c) ==
    CATEGORY_KEYWORDS[CHOOSE i \in 1..Len(CATEGORY_KEYWORDS) :
                          CATEGORY_KEYWORDS[i].category = c].keywords

\* The positions in the pinned order of the categories with a keyword that is
\* a substring of the lowercased merchant.
MatchingCategories(m) ==
    {i \in 1..Len(PinnedOrder) : ContainsAny(lower(m), KeywordsOf(PinnedOrder[i]))}

\* categorize_transaction has returned for a merchant text with no existing
\* category, and some keyword matches: the category is the first that matches
\* in the pinned order.
FirstMatchReturned ==
    (/\ pc = "returned" /\ existing_category = None /\ ~isna(merchant)
     /\ MatchingCategories(merchant) # {}) =>
        category = PinnedOrder[CHOOSE i \in MatchingCategories(merchant) :
                                   \A j \in MatchingCategories(merchant) : i <= j]

\* C8 as claimed: categorize_transaction with no existing category returns
\* the first category in the pinned table order with a keyword in the
\* lowercased merchant, and for "Swiggy Instamart Order" that is Dining.
C8_SwiggyInstamartIsDining ==
    /\ FirstMatchReturned
    /\ (pc = "returned" /\ existing_category = None /\ merchant = SwiggyInstamartOrder) =>
          category = "Dining"

\* C8 amended: categorize_transaction with no existing category returns the
\* first category in the pinned table order with a keyword in the lowercased
\* merchant; Groceries, whose list holds "instamart", stands before Dining,
\* whose list holds "swiggy", so for "Swiggy Instamart Order" that is Groceries.
C8_SwiggyInstamartIsGroceries ==
    /\ FirstMatchReturned
    /\ (pc = "returned" /\ existing_category = None /\ merchant = SwiggyInstamartOrder) =>
          category = "Groceries"

\* categorize_transaction has returned for "Swiggy Instamart Order" with no
\* existing category, a text that keywords of two categories match.
C8_Witness ==
    /\ pc = "returned"
    /\ merchant = SwiggyInstamartOrder
    /\ existing_category = None
    /\ Cardinality(MatchingCategories(merchant)) = 2
    /\ category = "Groceries"

(***************************************************************************)
(* Properties of parse_statement (SpecStmt)                                *)
(***************************************************************************)

\* parse_statement has returned a DataFrame.
StatementParsed == pc = "stmt_returned" /\ ~df.is_none

\* C9: categorize_transaction returns an existing category unchanged for
\* every merchant text, so in every record parse_statement returns for a
\* Format-B statement the category is the hint extract_hdfc_category gave
\* for the merchant, when it gave one, whatever the keyword table says.
C9_BankHintKept ==
    /\ \A m \in CatMerchants : \A c \in HintLabels : categorize_transaction(m, c) = c
    /\ StatementParsed =>
          \A k \in 1..Len(df.rows) :
              (df.rows[k].bank = "HDFC" /\ extract_hdfc_category(df.rows[k].merchant) # None) =>
                  df.rows[k].category = extract_hdfc_category(df.rows[k].merchant)

\* parse_statement has returned a record whose bank hint (Apparels, for
\* WESTSIDEMUMBAI) differs from what the keyword table gives the merchant
\* (Shopping).
C9_Witness ==
    /\ StatementParsed
    /\ \E k \in 1..Len(df.rows) :
          /\ df.rows[k].merchant = WestsideMumbai
          /\ df.rows[k].category = "Apparels"
          /\ categorize_transaction(df.rows[k].merchant, None) = "Shopping"

\* C10: every record parse_statement returns has a category that is not
\* null; a record with no bank hint whose merchant matches no keyword of the
\* table has the category Other, and so has a missing merchant.
C10_CategoryNeverNull ==
    /\ categorize_transaction(NaN, None) = "Other"
    /\ StatementParsed =>
          \A k \in 1..Len(df.rows) :
              /\ df.rows[k].category # None
              /\ (/\ df.rows[k].bank = "Axis" \/ extract_hdfc_category(df.rows[k].merchant) = None
                  /\ MatchingCategories(df.rows[k].merchant) = {}) =>
                     df.rows[k].category = "Other"

\* parse_statement has returned a record of a merchant (XYZ STORE) that has
\* no bank hint and matches no keyword.
C10_Witness ==
    /\ StatementParsed
    /\ \E k \in 1..Len(df.rows) :
          /\ df.rows[k].merchant = XyzStore
          /\ MatchingCategories(XyzStore) = {}
          /\ df.rows[k].category = "Other"

(***************************************************************************)
(* Further properties of the line parsers (SpecParsers)                    *)
(***************************************************************************)

\* The decimal number a is greater than zero.
Positive(a) == a[1] > 0

\* C11: every record parse_axis or parse_hdfc returns has an amount greater
\* than zero, also on texts with a line whose amount column reads 0 or 0.00.
C11_AmountsPositive ==
    pc \in {"axis_returned", "hdfc_returned"} =>
        \A k \in 1..Len(df.rows) : Positive(df.rows[k].amount)

(***************************************************************************)
(* Further properties of parse_statement (SpecStmt)                        *)
(***************************************************************************)

\* The texts in which detect_bank finds no bank signature.
UnsupportedTexts == {t \in StatementTexts \ {<<>>, NoneText} : detect_bank(t) = None}

\* The outcome r of the line parser is no row and no exception.
NoRows(r) == r.exc = None /\ r.rows = <<>>

\* The bank of txt is recognised and its line parser finds no transaction.
NoTransactionsFound(txt) ==
    /\ txt \notin {<<>>, NoneText}
    /\ detect_bank(txt) # None
    /\ NoRows(IF detect_bank(txt) = "AXIS" THEN parse_axis(txt, detect_card(txt))
              ELSE parse_hdfc(txt, detect_card(txt)))

\* C12: what parse_statement returns for a text of a recognised bank with no
\* matching line differs from what it returns for a text with no bank
\* signature, so the caller can tell the two failures apart.
C12_FailureKindsDistinguishable ==
    (pc = "stmt_returned" /\ NoTransactionsFound(text)) =>
        \A u \in UnsupportedTexts : parse_text(u).df # df

\* The card header pattern of the bank is absent from txt.
HeaderMissing(txt, bank) ==
    IF bank = "HDFC" THEN ~HdfcHeaderSearch(upper(txt)).ok
    ELSE ~AxisHeaderSearch(upper(txt)).ok

\* The generic card name of a bank.
FallbackCard(bank) == IF bank = "HDFC" THEN "HDFC Credit Card" ELSE "Axis Bank Credit Card"

\* C13: a statement of a recognised bank whose text lacks that bank's card
\* header parses into records that carry the bank's generic card name, never
\* "Unknown Card".
C13_HeaderMissGivesBankFallback ==
    (StatementParsed /\ HeaderMissing(text, detect_bank(text))) =>
        \A k \in 1..Len(df.rows) : df.rows[k].card = FallbackCard(detect_bank(text))

\* The labels of the classifier table, and the label of no match.
TableLabels == {PinnedOrder[i] : i \in 1..Len(PinnedOrder)} \cup {"Other"}

\* C14: the category of every record parse_statement returns, of either
\* layout and also when a hint of extract_hdfc_category was kept, is a label
\* of the classifier table or Other.
C14_CategoryInTableLabels ==
    StatementParsed => \A k \in 1..Len(df.rows) : df.rows[k].category \in TableLabels

(***************************************************************************)
(* Further properties of parse_multiple_statements (Spec)                  *)
(***************************************************************************)

\* The records of the statements of the batch that parse, in batch order.
RECURSIVE SuccessfulRows(_)
SuccessfulRows(files) ==
    IF files = <<>> THEN <<>>
    ELSE (IF ParsesOk(Head(files)) THEN Parsed[Head(files)].df.rows ELSE <<>>)
             \o SuccessfulRows(Tail(files))

\* The sequences a and b hold the same elements, each as often.
SameMultiset(a, b) ==
    /\ Len(a) = Len(b)
    /\ \A k \in 1..Len(a) : Count(a, a[k]) = Count(b, a[k])

\* C15: the combined ledger is a rearrangement of the records of the
\* statements that parsed: as long as their counts together, each record
\* with all its fields as often as the statements hold it, duplicates kept.
C15_CombinedIsRearrangement ==
    (pc = "done" /\ ~combined_df.is_none) =>
        SameMultiset(combined_df.rows, SuccessfulRows(pdf_files))

\* A ledger has been combined from two statements that hold the same
\* transaction, given after a statement with later dates: the record is there
\* twice and the ledger is not the concatenation.
C15_Witness ==
    /\ pc = "done" /\ ~combined_df.is_none
    /\ \E i, j \in 1..Len(combined_df.rows) :
          i < j /\ combined_df.rows[i] = combined_df.rows[j]
    /\ combined_df.rows # SuccessfulRows(pdf_files)

\* C16: for every text in which detect_bank finds no bank signature,
\* detect_card gives "Unknown Card": parse_statement, returning on such a
\* text, has identified the pair (None, "Unknown Card").
C16_NoBankMeansUnknownCard ==
    (pc = "stmt_returned" /\ text \in UnsupportedTexts) =>
        detect_card(text) = "Unknown Card"

\* The card names detect_card gives for the header of each bank, by the
\* value of the records' bank field.
CardsOfBank(bank) ==
    IF bank = "HDFC" THEN {"HDFC Swiggy", "HDFC Tata Neu", "HDFC Credit Card"}
    ELSE {"Axis Flipkart", "Axis Bank Credit Card"}

OtherBank(bank) == IF bank = "HDFC" THEN "Axis" ELSE "HDFC"

\* C17: in every record parse_statement returns, the card name is of the
\* bank named by the record's bank field and never a card name of the other
\* bank, also for a text that holds the names of both banks or the card
\* header of the other bank.
C17_CardOfSameBank ==
    StatementParsed =>
        \A k \in 1..Len(df.rows) :
            df.rows[k].card \notin CardsOfBank(OtherBank(df.rows[k].bank))
====
